---------------------------- MODULE Spec2Model ----------------------------
(***************************************************************************)
(* A model of src/extract_data.py: the title matcher, the three footnote   *)
(* extractors and the page loop of extract_data_from_pdf / main.           *)
(*                                                                         *)
(* A Python str is a sequence of one-character strings, so that strip,     *)
(* split, join, the regular expressions and int()/str() are computed and   *)
(* not assumed.  A Python dict is the sequence of its items in insertion   *)
(* order.  None is the empty tuple and a value v that may be None is <<v>>.*)
(* Python indexes from 0 and the sequences here from 1: ai, li and k are   *)
(* the 1-based positions of the loops' current elements.                   *)
(***************************************************************************)
EXTENDS Integers, Sequences, FiniteSets, TLC

VARIABLES
    pc,                 \* position in the program
    entry,              \* the function the run was started at
    exists,             \* os.path.exists(pdf_path)
    num_pages,          \* len(pdf.pages)
    page,               \* the page at hand: <<>> or <<page>>
    titled_pages,       \* how many of the pages read so far hold a title line
    i,                  \* enumerate index of the page loop (0-based)
    extracted_data,     \* list of records of extract_data_from_pdf
    report_data,        \* main's report_data: None or <<list>>
    stdout,             \* the messages printed so far
    written,            \* the output spreadsheet: <<>> or <<rows>>
    text_lines,         \* extract_title_from_page: the split page text
    k,                  \* extract_title_from_page: position of the scan
    title,              \* the title returned for the current page
    sorted_anchors,     \* the sorted anchor list of the segmenter
    ai,                 \* position of the loop over sorted_anchors
    found_lines,        \* the split text of the current block
    li,                 \* position of the loop over found_lines / lines
    final_footnotes_dict,   \* dict of extract_footnotes_with_line2
    footnote_counter,   \* counter of extract_footnotes_with_line2
    all_footnotes_on_page,  \* list of extract_footnotes_from_page
    footnotes,          \* dict of extract_footnotes_with_line
    current_source_id,  \* None or <<id>>
    crops               \* the calls of page.crop(bbox).extract_text() made
                        \* for the current page: <<[bbox, text]>>

vars == <<pc, entry, exists, num_pages, page, titled_pages, i,
          extracted_data, report_data, stdout, written, text_lines, k,
          title, sorted_anchors, ai, found_lines, li,
          final_footnotes_dict, footnote_counter, all_footnotes_on_page,
          footnotes, current_source_id, crops>>

-----------------------------------------------------------------------------
(* Bounds of the model.                                                     *)

MaxPages == 2       \* pages of a document
MaxLines == 3       \* lines of the text handed to extract_footnotes_with_line
MaxSeps == 2        \* line segments of a page handed to the segmenter
MaxTitles == 1      \* titles found on a page handed to the segmenter
MaxY == 2           \* page height; vertical coordinates are 0 .. MaxY + 1

-----------------------------------------------------------------------------
(* Strings.                                                                 *)

NL == "\n"
Whitespace == {" ", "\t"}
Digits == {"0", "1", "2", "3", "4", "5", "6", "7", "8", "9"}

RECURSIVE LStrip(_)
LStrip(s) ==
    IF s # <<>> /\ Head(s) \in Whitespace THEN LStrip(Tail(s)) ELSE s

RECURSIVE RStrip(_)
RStrip(s) ==
    IF s # <<>> /\ s[Len(s)] \in Whitespace
    THEN RStrip(SubSeq(s, 1, Len(s) - 1)) ELSE s

\* str.strip()
Strip(s) == RStrip(LStrip(s))

StartsWith(s, p) == Len(s) >= Len(p) /\ SubSeq(s, 1, Len(p)) = p

\* str.split(sep) for a one-character sep: never empty, "" gives [""]
RECURSIVE SplitFrom(_, _, _)
SplitFrom(s, sep, cur) ==
    IF s = <<>> THEN <<cur>>
    ELSE IF Head(s) = sep THEN <<cur>> \o SplitFrom(Tail(s), sep, <<>>)
    ELSE SplitFrom(Tail(s), sep, Append(cur, Head(s)))

Split(s, sep) == SplitFrom(s, sep, <<>>)

\* sep.join(parts)
RECURSIVE Join(_, _)
Join(parts, sep) ==
    IF parts = <<>> THEN <<>>
    ELSE IF Len(parts) = 1 THEN parts[1]
    ELSE parts[1] \o sep \o Join(Tail(parts), sep)

DigitValue(c) ==
    CASE c = "0" -> 0 [] c = "1" -> 1 [] c = "2" -> 2 [] c = "3" -> 3
      [] c = "4" -> 4 [] c = "5" -> 5 [] c = "6" -> 6 [] c = "7" -> 7
      [] c = "8" -> 8 [] c = "9" -> 9

DigitChar(d) ==
    CASE d = 0 -> "0" [] d = 1 -> "1" [] d = 2 -> "2" [] d = 3 -> "3"
      [] d = 4 -> "4" [] d = 5 -> "5" [] d = 6 -> "6" [] d = 7 -> "7"
      [] d = 8 -> "8" [] d = 9 -> "9"

\* int(s) for a string of decimal digits
RECURSIVE ParseInt(_)
ParseInt(s) ==
    IF s = <<>> THEN 0
    ELSE 10 * ParseInt(SubSeq(s, 1, Len(s) - 1)) + DigitValue(s[Len(s)])

\* str(n) for n >= 0, as an f-string renders {key}
RECURSIVE FormatInt(_)
FormatInt(n) ==
    IF n < 10 THEN <<DigitChar(n)>>
    ELSE FormatInt(n \div 10) \o <<DigitChar(n % 10)>>

-----------------------------------------------------------------------------
(* The regular expressions.                                                 *)

Keywords == { <<"T", "a", "b", "l", "e">>,
              <<"F", "i", "g", "u", "r", "e">>,
              <<"L", "i", "s", "t", "i", "n", "g">> }

\* re.match(r'^(Table|Figure|Listing)\s[\d\.]+\s?.*', line): the keyword at
\* the start of the line, one whitespace character, one or more of digit
\* and dot; the rest of the pattern matches anything.
TitleStart(line) ==
    \E kw \in Keywords :
        /\ StartsWith(line, kw)
        /\ Len(line) >= Len(kw) + 2
        /\ line[Len(kw) + 1] \in Whitespace
        /\ line[Len(kw) + 2] \in Digits \cup {"."}

\* the first position at or after p of s that holds no character of cs
RECURSIVE SkipWhile(_, _, _)
SkipWhile(s, p, cs) ==
    IF p <= Len(s) /\ s[p] \in cs THEN SkipWhile(s, p + 1, cs) ELSE p

\* re.match(r'^Page\s*\d+', clean_line, re.IGNORECASE)
IsPageNumber(clean_line) ==
    /\ Len(clean_line) >= 5
    /\ clean_line[1] \in {"P", "p"}
    /\ clean_line[2] \in {"A", "a"}
    /\ clean_line[3] \in {"G", "g"}
    /\ clean_line[4] \in {"E", "e"}
    /\ LET d == SkipWhile(clean_line, 5, Whitespace)
       IN  d <= Len(clean_line) /\ clean_line[d] \in Digits

\* footnote_pattern = re.compile(r'^\((\d+)\)(.*)'): the position of the
\* closing parenthesis of a match, 0 when s does not match
FootnoteClose(s) ==
    IF s # <<>> /\ s[1] = "("
    THEN LET c == SkipWhile(s, 2, Digits)
         IN  IF c > 2 /\ c <= Len(s) /\ s[c] = ")" THEN c ELSE 0
    ELSE 0

FootnoteMatch(s) == FootnoteClose(s) # 0
\* int(match.group(1))
FootnoteId(s) == ParseInt(SubSeq(s, 2, FootnoteClose(s) - 1))
\* match.group(2)
FootnoteRest(s) == SubSeq(s, FootnoteClose(s) + 1, Len(s))

-----------------------------------------------------------------------------
(* Python values.                                                           *)

None == <<>>
Some(v) == <<v>>

\* truth value of a str, list or dict, and of None-or-<<list>>
Truthy(v) == v # <<>>
TruthyOpt(o) == o # None /\ o[1] # <<>>

DictHas(d, key) == \E n \in 1..Len(d) : d[n].key = key
DictGet(d, key) == d[CHOOSE n \in 1..Len(d) : d[n].key = key].value
\* d[key] = value: a new key goes last, an old key keeps its place
DictSet(d, key, value) ==
    IF DictHas(d, key)
    THEN [n \in 1..Len(d) |->
            IF d[n].key = key THEN [key |-> key, value |-> value] ELSE d[n]]
    ELSE Append(d, [key |-> key, value |-> value])


-----------------------------------------------------------------------------
(* The inputs.  The pages of the document are read one after the other and  *)
(* never again, so a page is drawn when the loop reaches it; the text of a  *)
(* cropped region is drawn when it is extracted.                            *)

SeqsUpTo(S, n) == UNION { [1..m -> S] : m \in 0..n }

\* lines of a page's text, as extract_title_from_page meets them
TitleLineA == <<"T", "a", "b", "l", "e", " ", "1", ".", "1", ":", " ", "S", " ">>
TitleLineB == <<"F", "i", "g", "u", "r", "e", "\t", ".", "2">>
LowerNoSpace == <<"t", "a", "b", "l", "e", "1", ".", "1">>
Indented == <<" ", "L", "i", "s", "t", "i", "n", "g", " ", "3">>
TwoSpaces == <<"T", "a", "b", "l", "e", " ", " ", "1">>

PageTexts ==
    { Join(ls, <<NL>>) :
        ls \in { <<>>,
                 <<TwoSpaces, TitleLineA>>,
                 <<TitleLineB, TitleLineA>>,
                 <<Indented, LowerNoSpace>>,
                 <<LowerNoSpace, TitleLineA, TitleLineB>> } }

\* lines of a block's text
NoteA == <<" ", "a", " ">>
NoteB == <<"b", " ", "c">>
PageNo == <<"p", "a", "g", "e", " ", "2">>
PageNoTight == <<"P", "a", "g", "e", "1", "0">>
Blank == <<" ">>

BlockTexts ==
    { Join(ls, <<NL>>) :
        ls \in { <<>>,
                 <<Blank, PageNo>>,
                 <<NoteA, PageNoTight>>,
                 <<NoteB, <<>>, NoteA>> } }

Segment(a, b) == [y0 |-> a, y1 |-> b]
Found(t) == [top |-> t]

\* page.lines, page.search(title_pattern), page.height and page.width
Geometry(ls, ts) == [lines |-> ls, search |-> ts, height |-> MaxY, width |-> MaxY]

MainGeometries ==
    { Geometry(<<>>, <<Found(0)>>),
      Geometry(<<Segment(0, 1)>>, <<>>),
      Geometry(<<Segment(1, 1)>>, <<Found(0)>>),
      Geometry(<<Segment(MaxY, MaxY), Segment(1, 1)>>, <<>>) }

\* page.chars is read by extract_footnotes_with_line alone
MakePage(t, g) == [text |-> t, lines |-> g.lines, search |-> g.search,
                   chars |-> <<>>, height |-> g.height, width |-> g.width]

MainPages == { MakePage(t, g) : t \in PageTexts, g \in MainGeometries }

-----------------------------------------------------------------------------
(* Messages of the run.                                                     *)

MsgNotFound == "Error: The file was not found."
MsgProcessing == "Processing pages"
MsgComplete == "Extraction complete."
MsgReport == "print(report_data)"
MsgNoData == "No data was extracted to save."
MsgSaved == "Successfully saved data"

NotApplicable == <<"N", "/", "A">>
Bar == <<" ", "|", " ">>

-----------------------------------------------------------------------------
(* The anchors (the Region Segmenter of both block-scanning extractors).    *)

\* [... for l in page.lines if l['y0'] == l['y1']]
RECURSIVE HorizontalLines(_)
HorizontalLines(ls) ==
    IF ls = <<>> THEN <<>>
    ELSE (IF Head(ls).y0 = Head(ls).y1
          THEN <<[type |-> "line", y |-> Head(ls).y0]>> ELSE <<>>)
         \o HorizontalLines(Tail(ls))

Titles(ts) == [n \in 1..Len(ts) |-> [type |-> "title", y |-> ts[n].top]]

\* the anchors without the page's bottom
AnchorsNoBottom(p) == HorizontalLines(p.lines) \o Titles(p.search)

\* anchors = lines + titles; anchors.append(page_bottom)
Anchors(p) ==
    HorizontalLines(p.lines) \o Titles(p.search)
        \o <<[type |-> "page_bottom", y |-> p.height]>>

\* a into the sorted s, after every element whose key is not larger
RECURSIVE InsertByY(_, _)
InsertByY(s, a) ==
    IF s = <<>> THEN <<a>>
    ELSE IF s[Len(s)].y <= a.y THEN Append(s, a)
    ELSE Append(InsertByY(SubSeq(s, 1, Len(s) - 1), a), s[Len(s)])

\* sorted(anchors, key=lambda x: x['y']): ascending and stable
RECURSIVE SortedByY(_)
SortedByY(s) ==
    IF s = <<>> THEN <<>>
    ELSE InsertByY(SortedByY(SubSeq(s, 1, Len(s) - 1)), s[Len(s)])

\* the bound of the block test off by one: i + 2 < len(sorted_anchors)
StartsBlockOffByOne(sa, n) == sa[n].type = "line" /\ n + 2 <= Len(sa)

\* anchor['type'] == 'line' and i + 1 < len(sorted_anchors), for position n
StartsBlock(sa, n) == sa[n].type = "line" /\ n + 1 <= Len(sa)

\* bbox = (0, start_y, page.width, end_y)
BBox(sa, n, p) == <<0, sa[n].y, p.width, sa[n + 1].y>>

\* clean_line and not re.match(r'^Page\s*\d+', clean_line, re.IGNORECASE)
Keeps(clean_line) == Truthy(clean_line) /\ ~IsPageNumber(clean_line)

-----------------------------------------------------------------------------
(* extract_data_from_pdf and main.                                          *)

mainVars == <<exists, num_pages, titled_pages, i, extracted_data,
              report_data, stdout, written>>
titleVars == <<text_lines, k, title>>
segVars == <<sorted_anchors, ai, found_lines, li, crops>>
l2Vars == <<final_footnotes_dict, footnote_counter>>
otherVars == <<all_footnotes_on_page, footnotes, current_source_id>>

HasTitleLine(p) ==
    LET ls == Split(p.text, NL) IN \E n \in 1..Len(ls) : TitleStart(ls[n])

\* main calls extract_data_from_pdf; the path does not exist
Main_NotFound ==
    /\ pc = "main" /\ ~exists
    /\ stdout' = Append(stdout, MsgNotFound)
    /\ report_data' = None
    /\ pc' = "print_report"
    /\ UNCHANGED <<entry, page, exists, num_pages, titled_pages, i,
                   extracted_data, written, titleVars, segVars, l2Vars,
                   otherVars>>

\* the document is opened
Main_Open ==
    /\ pc = "main" /\ exists
    /\ extracted_data' = <<>>
    /\ stdout' = Append(stdout, MsgProcessing)
    /\ i' = 0
    /\ pc' = "for_page"
    /\ UNCHANGED <<entry, page, exists, num_pages, titled_pages, report_data,
                   written, titleVars, segVars, l2Vars, otherVars>>

\* the next page of the loop; extract_title_from_page splits its text
For_Page ==
    /\ pc = "for_page" /\ i < num_pages
    /\ \E p \in MainPages :
        /\ page' = Some(p)
        /\ text_lines' = Split(p.text, NL)
        /\ titled_pages' = titled_pages + (IF HasTitleLine(p) THEN 1 ELSE 0)
    /\ k' = 1
    /\ crops' = <<>>
    /\ pc' = "title_scan"
    /\ UNCHANGED <<entry, exists, num_pages, i, extracted_data, report_data,
                   stdout, written, title, sorted_anchors, ai, found_lines,
                   li, l2Vars, otherVars>>

\* the loop is over: extract_data_from_pdf returns the list
For_End ==
    /\ pc = "for_page" /\ i >= num_pages
    /\ stdout' = Append(stdout, MsgComplete)
    /\ report_data' = Some(extracted_data)
    /\ page' = None
    /\ pc' = "print_report"
    /\ UNCHANGED <<entry, exists, num_pages, titled_pages, i, extracted_data,
                   written, titleVars, segVars, l2Vars, otherVars>>

\* the scan going on to the last title line of the page
TitleStepLast(ls, n) ==
    IF n > Len(ls) THEN [done |-> TRUE, title |-> <<>>, k |-> n]
    ELSE IF TitleStart(ls[n])
            /\ ~\E m \in (n + 1)..Len(ls) : TitleStart(ls[m])
    THEN [done |-> TRUE, title |-> Strip(ls[n]), k |-> n]
    ELSE [done |-> FALSE, title |-> <<>>, k |-> n + 1]

\* the line at k: a title, or the scan's next line, or its end
TitleStep(ls, n) ==
    IF n > Len(ls) THEN [done |-> TRUE, title |-> <<>>, k |-> n]
    ELSE IF TitleStart(ls[n])
    THEN [done |-> TRUE, title |-> Strip(ls[n]), k |-> n]
    ELSE [done |-> FALSE, title |-> <<>>, k |-> n + 1]

Title_Scan ==
    /\ pc = "title_scan"
    /\ LET r == TitleStep(text_lines, k)
       IN  /\ k' = r.k
           /\ title' = r.title
           /\ pc' = IF r.done THEN "if_title" ELSE "title_scan"
    /\ UNCHANGED <<entry, page, mainVars, text_lines, segVars, l2Vars,
                   otherVars>>

\* the test of the title left out: every page is recorded
HasTitleAlways(t) == TRUE

\* if title: ... the page's footnotes are extracted
HasTitle(t) == Truthy(t)

If_Title ==
    /\ pc = "if_title" /\ HasTitle(title)
    /\ pc' = "l2_anchors"
    /\ UNCHANGED <<entry, page, mainVars, titleVars, segVars, l2Vars,
                   otherVars>>

\* no title: the page is passed over
If_NoTitle ==
    /\ pc = "if_title" /\ ~HasTitle(title)
    /\ i' = i + 1
    /\ pc' = "for_page"
    /\ text_lines' = <<>> /\ k' = 0
    /\ UNCHANGED <<entry, page, exists, num_pages, titled_pages,
                   extracted_data, report_data, stdout, written, title,
                   segVars, l2Vars, otherVars>>

-----------------------------------------------------------------------------
(* extract_footnotes_with_line2.                                            *)

\* lines 138-151: the anchors; no separator line returns {}
L2_NoLines ==
    /\ pc = "l2_anchors"
    /\ HorizontalLines(page[1].lines) = <<>>
    /\ final_footnotes_dict' = <<>>
    /\ pc' = "l2_return"
    /\ UNCHANGED <<entry, page, mainVars, titleVars, segVars,
                   footnote_counter, otherVars>>

L2_Anchors ==
    /\ pc = "l2_anchors"
    /\ HorizontalLines(page[1].lines) # <<>>
    /\ sorted_anchors' = SortedByY(Anchors(page[1]))
    /\ final_footnotes_dict' = <<>>
    /\ footnote_counter' = 1
    /\ ai' = 1
    /\ pc' = "l2_for_anchor"
    /\ UNCHANGED <<entry, page, mainVars, titleVars, found_lines, li, crops,
                   otherVars>>

\* lines 154-167: an anchor that starts a block; its region's text is
\* extracted, and an empty text moves on to the next anchor
L2_Block ==
    /\ pc = "l2_for_anchor"
    /\ ai <= Len(sorted_anchors)
    /\ StartsBlock(sorted_anchors, ai)
    /\ \E text \in BlockTexts :
        /\ crops' = Append(crops, [bbox |-> BBox(sorted_anchors, ai, page[1]),
                                   text |-> text])
        /\ IF Truthy(text)
           THEN /\ found_lines' = Split(text, NL)
                /\ li' = 1
                /\ pc' = "l2_for_line"
                /\ ai' = ai
           ELSE /\ ai' = ai + 1
                /\ pc' = "l2_for_anchor"
                /\ UNCHANGED <<found_lines, li>>
    /\ UNCHANGED <<entry, page, mainVars, titleVars, sorted_anchors, l2Vars,
                   otherVars>>

\* an anchor that starts no block
L2_Skip ==
    /\ pc = "l2_for_anchor"
    /\ ai <= Len(sorted_anchors)
    /\ ~StartsBlock(sorted_anchors, ai)
    /\ ai' = ai + 1
    /\ UNCHANGED <<pc, entry, page, mainVars, titleVars, sorted_anchors,
                   found_lines, li, crops, l2Vars, otherVars>>

\* the counter moved on by every line, kept or not
NextCounterEveryLine(counter, clean_line) == counter + 1

\* the counter after a line of a block
NextCounter(counter, clean_line) ==
    IF Keeps(clean_line) THEN counter + 1 ELSE counter

\* lines 168-175: a line of the block
L2_Line ==
    /\ pc = "l2_for_line"
    /\ li <= Len(found_lines)
    /\ LET clean_line == Strip(found_lines[li])
       IN  /\ final_footnotes_dict' =
                IF Keeps(clean_line)
                THEN DictSet(final_footnotes_dict, footnote_counter, clean_line)
                ELSE final_footnotes_dict
           /\ footnote_counter' = NextCounter(footnote_counter, clean_line)
    /\ li' = li + 1
    /\ UNCHANGED <<pc, entry, page, mainVars, titleVars, sorted_anchors, ai,
                   found_lines, crops, otherVars>>

\* the block's lines are done
L2_LinesEnd ==
    /\ pc = "l2_for_line"
    /\ li > Len(found_lines)
    /\ ai' = ai + 1
    /\ pc' = "l2_for_anchor"
    /\ UNCHANGED <<entry, page, mainVars, titleVars, sorted_anchors,
                   found_lines, li, crops, l2Vars, otherVars>>

\* line 177: the anchors are done
L2_AnchorsEnd ==
    /\ pc = "l2_for_anchor"
    /\ ai > Len(sorted_anchors)
    /\ pc' = "l2_return"
    /\ UNCHANGED <<entry, page, mainVars, titleVars, segVars, l2Vars,
                   otherVars>>

\* the page number 0-based
PageNumberZeroBased(n) == n

\* page_number = i + 1
PageNumberOf(n) == n + 1

\* [f"({key}) {value}" for key, value in footnotes_dict.items()]
FootnoteItems(d) ==
    [n \in 1..Len(d) |->
        <<"(">> \o FormatInt(d[n].key) \o <<")", " ">> \o d[n].value]

\* the join without the sentinel
FootnotesFieldNoSentinel(items) == Join(items, Bar)

\* " | ".join(footnotes) if footnotes else "N/A"
FootnotesField(items) ==
    IF Truthy(items) THEN Join(items, Bar) ELSE NotApplicable

\* lines 198-204: the page's record is appended, and the loop goes on
Record ==
    /\ pc = "l2_return" /\ entry = "main"
    /\ extracted_data' =
         Append(extracted_data,
                [Page |-> PageNumberOf(i),
                 Title |-> title,
                 Footnotes |->
                     FootnotesField(FootnoteItems(final_footnotes_dict))])
    /\ i' = i + 1
    /\ pc' = "for_page"
    /\ text_lines' = <<>> /\ k' = 0
    /\ sorted_anchors' = <<>> /\ ai' = 0 /\ found_lines' = <<>> /\ li' = 0
    /\ final_footnotes_dict' = <<>> /\ footnote_counter' = 0
    /\ UNCHANGED <<entry, page, exists, num_pages, titled_pages, report_data,
                   stdout, written, title, crops, otherVars>>

-----------------------------------------------------------------------------
(* main, after extract_data_from_pdf, and save_to_excel.                    *)

\* print(report_data); if report_data: save_to_excel(...)
Main_Report ==
    /\ pc = "print_report"
    /\ stdout' = Append(stdout, MsgReport)
    /\ pc' = IF TruthyOpt(report_data) THEN "save_to_excel" ELSE "done"
    /\ UNCHANGED <<entry, page, exists, num_pages, titled_pages, i,
                   extracted_data, report_data, written, titleVars, segVars,
                   l2Vars, otherVars>>

\* save_to_excel: nothing to save is reported, anything else is written
Save_To_Excel ==
    /\ pc = "save_to_excel"
    /\ IF ~Truthy(report_data[1])
       THEN /\ stdout' = Append(stdout, MsgNoData)
            /\ UNCHANGED written
       ELSE /\ written' = Some(report_data[1])
            /\ stdout' = Append(stdout, MsgSaved)
    /\ pc' = "done"
    /\ UNCHANGED <<entry, page, exists, num_pages, titled_pages, i,
                   extracted_data, report_data, titleVars, segVars, l2Vars,
                   otherVars>>

-----------------------------------------------------------------------------
(* A run of main.                                                           *)

InitLocals ==
    /\ titled_pages = 0 /\ i = 0
    /\ extracted_data = <<>> /\ report_data = None
    /\ stdout = <<>> /\ written = None
    /\ text_lines = <<>> /\ k = 0 /\ title = <<>>
    /\ sorted_anchors = <<>> /\ ai = 0 /\ found_lines = <<>> /\ li = 0
    /\ final_footnotes_dict = <<>> /\ footnote_counter = 0
    /\ all_footnotes_on_page = <<>>
    /\ footnotes = <<>> /\ current_source_id = None
    /\ crops = <<>>

Init ==
    /\ pc = "main" /\ entry = "main"
    /\ exists \in BOOLEAN
    /\ num_pages \in 0..MaxPages
    /\ page = None
    /\ InitLocals

WithLine2 ==
    \/ L2_NoLines \/ L2_Anchors \/ L2_Block \/ L2_Skip \/ L2_Line
    \/ L2_LinesEnd \/ L2_AnchorsEnd

Next ==
    \/ Main_NotFound \/ Main_Open \/ For_Page \/ For_End
    \/ Title_Scan \/ If_Title \/ If_NoTitle
    \/ WithLine2
    \/ Record
    \/ Main_Report \/ Save_To_Excel

Spec == Init /\ [][Next]_vars

-----------------------------------------------------------------------------
(* extract_footnotes_from_page, and the extractors called on a page.        *)

\* lines 33-47: no separator line returns []
FP_NoLines ==
    /\ pc = "fp_anchors"
    /\ HorizontalLines(page[1].lines) = <<>>
    /\ all_footnotes_on_page' = <<>>
    /\ pc' = "done"
    /\ UNCHANGED <<entry, page, mainVars, titleVars, segVars, l2Vars,
                   footnotes, current_source_id>>

\* lines 33-52
FP_Anchors ==
    /\ pc = "fp_anchors"
    /\ HorizontalLines(page[1].lines) # <<>>
    /\ sorted_anchors' = SortedByY(Anchors(page[1]))
    /\ all_footnotes_on_page' = <<>>
    /\ ai' = 1
    /\ pc' = "fp_for_anchor"
    /\ UNCHANGED <<entry, page, mainVars, titleVars, found_lines, li, crops,
                   l2Vars, footnotes, current_source_id>>

\* lines 55-70
FP_Block ==
    /\ pc = "fp_for_anchor"
    /\ ai <= Len(sorted_anchors)
    /\ StartsBlock(sorted_anchors, ai)
    /\ \E text \in BlockTexts :
        /\ crops' = Append(crops, [bbox |-> BBox(sorted_anchors, ai, page[1]),
                                   text |-> text])
        /\ IF Truthy(text)
           THEN /\ found_lines' = Split(text, NL)
                /\ li' = 1
                /\ pc' = "fp_for_line"
                /\ ai' = ai
           ELSE /\ ai' = ai + 1
                /\ pc' = "fp_for_anchor"
                /\ UNCHANGED <<found_lines, li>>
    /\ UNCHANGED <<entry, page, mainVars, titleVars, sorted_anchors, l2Vars,
                   otherVars>>

FP_Skip ==
    /\ pc = "fp_for_anchor"
    /\ ai <= Len(sorted_anchors)
    /\ ~StartsBlock(sorted_anchors, ai)
    /\ ai' = ai + 1
    /\ UNCHANGED <<pc, entry, page, mainVars, titleVars, sorted_anchors,
                   found_lines, li, crops, l2Vars, otherVars>>

\* lines 71-74
FP_Line ==
    /\ pc = "fp_for_line"
    /\ li <= Len(found_lines)
    /\ LET clean_line == Strip(found_lines[li])
       IN  all_footnotes_on_page' =
             IF Keeps(clean_line)
             THEN Append(all_footnotes_on_page, clean_line)
             ELSE all_footnotes_on_page
    /\ li' = li + 1
    /\ UNCHANGED <<pc, entry, page, mainVars, titleVars, sorted_anchors, ai,
                   found_lines, crops, l2Vars, footnotes, current_source_id>>

FP_LinesEnd ==
    /\ pc = "fp_for_line"
    /\ li > Len(found_lines)
    /\ ai' = ai + 1
    /\ pc' = "fp_for_anchor"
    /\ UNCHANGED <<entry, page, mainVars, titleVars, sorted_anchors,
                   found_lines, li, crops, l2Vars, otherVars>>

\* line 76
FP_AnchorsEnd ==
    /\ pc = "fp_for_anchor"
    /\ ai > Len(sorted_anchors)
    /\ pc' = "done"
    /\ UNCHANGED <<entry, page, mainVars, titleVars, segVars, l2Vars,
                   otherVars>>

FromPage ==
    \/ FP_NoLines \/ FP_Anchors \/ FP_Block \/ FP_Skip \/ FP_Line
    \/ FP_LinesEnd \/ FP_AnchorsEnd

\* extract_footnotes_with_line2 returns to a caller other than the page loop
L2_Return ==
    /\ pc = "l2_return" /\ entry = "extract_footnotes_with_line2"
    /\ pc' = "done"
    /\ UNCHANGED <<entry, page, mainVars, titleVars, segVars, l2Vars,
                   otherVars>>

\* the pages the segmenter is called on: up to MaxSeps line segments, level
\* at 0 .. MaxY + 1 (the last below the page's bottom) or slanted, up to
\* MaxTitles titles found on the page, and the page of the example
Segments == { Segment(y, y) : y \in 0..(MaxY + 1) } \cup { Segment(0, 1) }
Founds == { Found(t) : t \in 0..MaxY }

ExamplePage ==
    [text |-> <<>>, lines |-> <<Segment(100, 100), Segment(300, 300)>>,
     search |-> <<>>, chars |-> <<>>, height |-> 400, width |-> 200]

SegPages ==
    { MakePage(<<>>, Geometry(ls, ts)) :
        ls \in SeqsUpTo(Segments, MaxSeps), ts \in SeqsUpTo(Founds, MaxTitles) }
    \cup { ExamplePage }

SegInit ==
    /\ entry \in {"extract_footnotes_from_page", "extract_footnotes_with_line2"}
    /\ pc = IF entry = "extract_footnotes_from_page"
            THEN "fp_anchors" ELSE "l2_anchors"
    /\ page \in { Some(p) : p \in SegPages }
    /\ exists = TRUE /\ num_pages = 1
    /\ InitLocals

SegNext == FromPage \/ WithLine2 \/ L2_Return

SpecSeg == SegInit /\ [][SegNext]_vars

-----------------------------------------------------------------------------
(* extract_footnotes_with_line.                                             *)

\* re.match(r'^(Table|Figure|Listing)\s[\d\.]+\s?:.*', line)
TitleWithColon(line) ==
    \E kw \in Keywords :
        /\ StartsWith(line, kw)
        /\ Len(line) >= Len(kw) + 2
        /\ line[Len(kw) + 1] \in Whitespace
        /\ LET d == SkipWhile(line, Len(kw) + 2, Digits \cup {"."})
               c == IF d <= Len(line) /\ line[d] \in Whitespace
                    THEN d + 1 ELSE d
           IN  /\ d > Len(kw) + 2
               /\ \/ d <= Len(line) /\ line[d] = ":"
                  \/ c <= Len(line) /\ line[c] = ":"

MaxOf(S) == CHOOSE x \in S : \A y \in S : y <= x
MinOf(S) == CHOOSE x \in S : \A y \in S : x <= y

\* max(horizontal_lines, key=lambda line: line['y0'])['y0']
SeparatorY(p) ==
    LET hs == HorizontalLines(p.lines)
    IN  MaxOf({ hs[n].y : n \in 1..Len(hs) })

\* lines 92-101: the top of the first character of the page that equals the
\* first character of the first title line, else the page's height
NextTitleY(p) ==
    LET ls == Split(p.text, NL)
        hits == { n \in 1..Len(ls) : TitleWithColon(ls[n]) }
    IN  IF hits = {} THEN p.height
        ELSE LET line == ls[MinOf(hits)]
                 cs == { c \in 1..Len(p.chars) : p.chars[c].text = line[1] }
             IN  IF cs = {} THEN p.height ELSE p.chars[MinOf(cs)].top

\* lines of the text below the separator
NoteOne == <<"(", "1", ")", " ", "a">>
NoteOneAgain == <<" ", "(", "1", ")", "b", " ">>
NoteTwo == <<"(", "0", "2", ")">>
Continued == <<" ", "c", " ", "d", " ">>
ExampleFirst == <<"(", "1", ")", " ", "F", "i", "r", "s", "t", " ",
                  "p", "a", "r", "t">>
ExampleContinued == <<"c", "o", "n", "t", "i", "n", "u", "e", "d", " ",
                      "t", "e", "x", "t">>
ExampleSecond == <<"(", "2", ")", " ", "S", "e", "c", "o", "n", "d">>
ExampleLines == <<ExampleFirst, ExampleContinued, ExampleSecond>>

FootnoteLines == { NoteOne, NoteOneAgain, NoteTwo, Continued, Blank }

LineTexts ==
    { Join(ls, <<NL>>) : ls \in SeqsUpTo(FootnoteLines, MaxLines) }
    \cup { Join(ExampleLines, <<NL>>) }

LinePages ==
    { [text |-> t, lines |-> ls, search |-> <<>>, chars |-> cs,
       height |-> MaxY, width |-> MaxY] :
        t \in { <<>>, TitleLineA, TitleLineB },
        ls \in { <<>>, <<Segment(0, 1)>>,
                 <<Segment(0, 0), Segment(1, 1), Segment(0, 1)>> },
        cs \in { <<>>, <<[text |-> "F", top |-> 0],
                        [text |-> "T", top |-> 2],
                        [text |-> "T", top |-> 1]>> } }

\* lines 83-86: no separator line returns {}
WL_NoLines ==
    /\ pc = "wl_lines"
    /\ HorizontalLines(page[1].lines) = <<>>
    /\ footnotes' = <<>>
    /\ pc' = "done"
    /\ UNCHANGED <<entry, page, mainVars, titleVars, segVars, l2Vars,
                   all_footnotes_on_page, current_source_id>>

\* lines 88-114: the region from the lowest separator to the next title is
\* cropped; no text returns {}
WL_Crop ==
    /\ pc = "wl_lines"
    /\ HorizontalLines(page[1].lines) # <<>>
    /\ \E text \in LineTexts :
        /\ crops' = <<[bbox |-> <<0, SeparatorY(page[1]), page[1].width,
                                  NextTitleY(page[1])>>,
                       text |-> text]>>
        /\ IF Truthy(text)
           THEN /\ found_lines' = Split(text, NL)
                /\ li' = 1
                /\ pc' = "wl_for_line"
           ELSE /\ pc' = "done"
                /\ UNCHANGED <<found_lines, li>>
    /\ footnotes' = <<>>
    /\ current_source_id' = None
    /\ UNCHANGED <<entry, page, mainVars, titleVars, sorted_anchors, ai,
                   l2Vars, all_footnotes_on_page>>

\* a repeated id appended to the text kept for it, not assigned
FoldLineAppending(d, cur, line) ==
    LET s == Strip(line)
    IN  IF FootnoteMatch(s)
        THEN [footnotes |->
                 DictSet(d, FootnoteId(s),
                         IF DictHas(d, FootnoteId(s))
                         THEN DictGet(d, FootnoteId(s)) \o <<" ">>
                                 \o Strip(FootnoteRest(s))
                         ELSE Strip(FootnoteRest(s))),
              current_source_id |-> Some(FootnoteId(s))]
        ELSE IF cur # None /\ Truthy(s)
        THEN [footnotes |->
                 DictSet(d, cur[1], DictGet(d, cur[1]) \o <<" ">> \o s),
              current_source_id |-> cur]
        ELSE [footnotes |-> d, current_source_id |-> cur]

\* a continuation line appended unstripped and without the space
FoldLineNoSpace(d, cur, line) ==
    LET s == Strip(line)
    IN  IF FootnoteMatch(s)
        THEN [footnotes |-> DictSet(d, FootnoteId(s), Strip(FootnoteRest(s))),
              current_source_id |-> Some(FootnoteId(s))]
        ELSE IF cur # None /\ Truthy(s)
        THEN [footnotes |-> DictSet(d, cur[1], DictGet(d, cur[1]) \o line),
              current_source_id |-> cur]
        ELSE [footnotes |-> d, current_source_id |-> cur]

\* lines 117-124: the dict and the current id after a line
FoldLine(d, cur, line) ==
    LET s == Strip(line)
    IN  IF FootnoteMatch(s)
        THEN [footnotes |-> DictSet(d, FootnoteId(s), Strip(FootnoteRest(s))),
              current_source_id |-> Some(FootnoteId(s))]
        ELSE IF cur # None /\ Truthy(s)
        THEN [footnotes |->
                 DictSet(d, cur[1], DictGet(d, cur[1]) \o <<" ">> \o s),
              current_source_id |-> cur]
        ELSE [footnotes |-> d, current_source_id |-> cur]

WL_Line ==
    /\ pc = "wl_for_line"
    /\ li <= Len(found_lines)
    /\ LET r == FoldLine(footnotes, current_source_id, found_lines[li])
       IN  /\ footnotes' = r.footnotes
           /\ current_source_id' = r.current_source_id
    /\ li' = li + 1
    /\ UNCHANGED <<pc, entry, page, mainVars, titleVars, sorted_anchors, ai,
                   found_lines, crops, l2Vars, all_footnotes_on_page>>

\* line 126
WL_Return ==
    /\ pc = "wl_for_line"
    /\ li > Len(found_lines)
    /\ pc' = "done"
    /\ UNCHANGED <<entry, page, mainVars, titleVars, segVars, l2Vars,
                   otherVars>>

LineInit ==
    /\ entry = "extract_footnotes_with_line"
    /\ pc = "wl_lines"
    /\ page \in { Some(p) : p \in LinePages }
    /\ exists = TRUE /\ num_pages = 1
    /\ InitLocals

LineNext == WL_NoLines \/ WL_Crop \/ WL_Line \/ WL_Return

SpecLine == LineInit /\ [][LineNext]_vars

-----------------------------------------------------------------------------
(* Properties of a run of main.                                             *)

\* the lines of the blocks extracted so far that a block scan keeps: each
\* non-empty text split at the newlines, each line stripped, the empty and
\* the page-number lines left out
RECURSIVE Flatten(_)
Flatten(ss) == IF ss = <<>> THEN <<>> ELSE Head(ss) \o Flatten(Tail(ss))

StripAll(ls) == [n \in 1..Len(ls) |-> Strip(ls[n])]
Surviving(ls) == SelectSeq(StripAll(ls), Keeps)
BlockLines(c) == IF c.text = <<>> THEN <<>> ELSE Split(c.text, NL)
Survivors(cs) == Flatten([n \in 1..Len(cs) |-> Surviving(BlockLines(cs[n]))])
Numbered(ls) == [n \in 1..Len(ls) |-> [key |-> n, value |-> ls[n]]]

\* C2: the records are at most the pages, as many as the pages exactly when
\* every page holds a title line, and a page without one adds no record.
C2_RecordsAtMostPages ==
    /\ Len(extracted_data) <= i /\ i <= num_pages
    /\ pc = "for_page" => Len(extracted_data) = titled_pages
    /\ report_data # None =>
         /\ Len(report_data[1]) <= num_pages
         /\ Len(report_data[1]) = num_pages <=> titled_pages = num_pages

C2_Witness ==
    /\ pc = "done" /\ report_data # None
    /\ Len(report_data[1]) = 1 /\ num_pages = 2 /\ titled_pages = 1

\* C5: the lines a block scan keeps are numbered 1, 2, ..., n in the order
\* of the blocks and of the lines in a block; a dropped line takes no
\* number, and every page starts again at 1.
C5_SequentialIds ==
    /\ \A m, n \in 1..Len(crops) :
          m < n => crops[m].bbox[2] <= crops[n].bbox[2]
    /\ pc \in {"l2_for_anchor", "l2_return"} /\ sorted_anchors # <<>> =>
         /\ final_footnotes_dict = Numbered(Survivors(crops))
         /\ footnote_counter = Len(final_footnotes_dict) + 1
    /\ pc = "l2_for_line" =>
         LET before == SubSeq(crops, 1, Len(crops) - 1)
             seen == SubSeq(found_lines, 1, li - 1)
         IN  /\ final_footnotes_dict =
                    Numbered(Survivors(before) \o Surviving(seen))
             /\ footnote_counter = Len(final_footnotes_dict) + 1

C5_Witness ==
    /\ pc = "l2_return" /\ i = 1 /\ Len(extracted_data) = 1
    /\ extracted_data[1].Footnotes # NotApplicable
    /\ Len(crops) = 2
    /\ Len(final_footnotes_dict) = 3
    /\ Len(Flatten([n \in 1..2 |-> BlockLines(crops[n])])) = 5

\* C6: the scan of a page's lines stops at the first line that starts a
\* title and returns it stripped; no later line is returned, no title line
\* gives the empty title, and no record holds an empty title.
C6_FirstTitleLine ==
    LET hits == {n \in 1..Len(text_lines) : TitleStart(text_lines[n])}
    IN  /\ pc = "title_scan" => \A n \in hits : k <= n
        /\ pc = "if_title" =>
             IF hits = {} THEN title = <<>>
             ELSE k = MinOf(hits) /\ title = Strip(text_lines[MinOf(hits)])
        /\ pc = "if_title" /\ text_lines = <<Indented, LowerNoSpace>> =>
             title = <<>>
        /\ pc = "if_title" /\ text_lines = <<TwoSpaces, TitleLineA>> =>
             title = SubSeq(TitleLineA, 1, Len(TitleLineA) - 1)
        /\ \A n \in 1..Len(extracted_data) : extracted_data[n].Title # <<>>

C6_Witness ==
    /\ pc = "if_title" /\ title # <<>>
    /\ \E n \in 1..Len(text_lines) :
          /\ n > k /\ TitleStart(text_lines[n])
          /\ Strip(text_lines[n]) # title

\* C8: the pages are taken in order, each once; a record's Page is the
\* 1-based index of its page, the Pages of the list increase strictly, and
\* the list only ever grows at its end.
C8_PagesInOrder ==
    /\ [](/\ \A n \in 1..Len(extracted_data) :
                extracted_data[n].Page \in 1..i
          /\ \A m, n \in 1..Len(extracted_data) :
                m < n => extracted_data[m].Page < extracted_data[n].Page)
    /\ [][/\ i' \in {i, i + 1}
          /\ \/ extracted_data' = extracted_data
             \/ /\ Len(extracted_data') = Len(extracted_data) + 1
                /\ SubSeq(extracted_data', 1, Len(extracted_data))
                      = extracted_data
                /\ extracted_data'[Len(extracted_data')].Page = i + 1
                /\ i' = i + 1]_vars

C8_Witness ==
    /\ pc = "done" /\ Len(extracted_data) = 1 /\ num_pages = 2
    /\ extracted_data[1].Page = 2

\* the Footnotes field for the kept lines ls of a page
ExpectedField(ls) ==
    IF ls = <<>> THEN NotApplicable
    ELSE Join([n \in 1..Len(ls) |->
                  <<"(">> \o FormatInt(n) \o <<")", " ">> \o ls[n]], Bar)

\* C9: a page with a title and no footnote line still adds its one record,
\* with Footnotes "N/A"; Footnotes is "N/A" only then, and otherwise the
\* kept lines as "(id) text", joined by " | " in the order of the ids.
C9_FootnotesOrSentinel ==
    [][pc = "l2_return" =>
          /\ Len(extracted_data') = Len(extracted_data) + 1
          /\ LET r == extracted_data'[Len(extracted_data')]
             IN  /\ r.Title = title
                 /\ r.Footnotes = ExpectedField(Survivors(crops))
                 /\ r.Footnotes = NotApplicable <=> Survivors(crops) = <<>>]_vars

C9_Witness ==
    /\ pc = "for_page" /\ Len(extracted_data) = 2
    /\ extracted_data[1].Footnotes # NotApplicable
    /\ extracted_data[2].Page = i
    /\ extracted_data[2].Footnotes = NotApplicable
    /\ \E n \in 1..Len(crops) : crops[n].text # <<>>

\* C10: a missing input processes no page and writes no file; a document
\* none of whose pages has a title is reported as "no data extracted" and
\* is not written; the file is written exactly when there is a record.
C10_TerminalCases ==
    pc = "done" =>
        /\ ~exists => i = 0 /\ page = None /\ written = None
        /\ exists /\ extracted_data = <<>> =>
             /\ \E n \in 1..Len(stdout) : stdout[n] = MsgNoData
             /\ written = None
        /\ written # None <=> exists /\ extracted_data # <<>>

-----------------------------------------------------------------------------
(* Properties of the segmenter (extract_footnotes_from_page and             *)
(* extract_footnotes_with_line2 called on a page).                          *)

\* the marks of a page: a separator for every level segment, a title for
\* every title found, the bottom at the page's height; ord is the place in
\* the order they are collected in
SeparatorsOf(p) == { n \in 1..Len(p.lines) : p.lines[n].y0 = p.lines[n].y1 }

Marks(p) ==
    { [kind |-> "line", y |-> p.lines[n].y0, ord |-> n] :
        n \in SeparatorsOf(p) }
    \cup { [kind |-> "title", y |-> p.search[n].top,
            ord |-> Len(p.lines) + n] : n \in 1..Len(p.search) }
    \cup { [kind |-> "page_bottom", y |-> p.height,
            ord |-> Len(p.lines) + Len(p.search) + 1] }

\* a comes before b in the timeline: ascending y, equal y in collected order
Before(a, b) == a.y < b.y \/ (a.y = b.y /\ a.ord < b.ord)
Following(M, a) == { b \in M : Before(a, b) }
NextMark(M, a) ==
    CHOOSE b \in Following(M, a) :
        \A c \in Following(M, a) : c = b \/ Before(b, c)

\* the separators that have a following mark, and their blocks in timeline
\* order
BlockStarts(M) == { a \in M : a.kind = "line" /\ Following(M, a) # {} }

ExpectedBlocks(p) ==
    LET M == Marks(p)
        S == BlockStarts(M)
        at(j) == CHOOSE a \in S :
                    Cardinality({ b \in S : Before(b, a) }) = j - 1
    IN  [j \in 1..Cardinality(S) |->
            <<0, at(j).y, p.width, NextMark(M, at(j)).y>>]

BBoxes == [n \in 1..Len(crops) |-> crops[n].bbox]

\* C1: with the anchors sorted by y, a block from an anchor to the next is
\* extracted for exactly the separators that have a following anchor, in
\* timeline order; separators at 100 and 300 on a page 400 high give
\* (100, 300) and (300, 400); no separator gives no block.
C1_BlocksAtSeparators ==
    pc = "done" =>
        /\ BBoxes = IF SeparatorsOf(page[1]) = {} THEN <<>>
                    ELSE ExpectedBlocks(page[1])
        /\ page[1] = ExamplePage =>
             BBoxes = << <<0, 100, 200, 300>>, <<0, 300, 200, 400>> >>

C1_Witness ==
    /\ pc = "done" /\ entry = "extract_footnotes_from_page"
    /\ Cardinality(SeparatorsOf(page[1])) = 2
    /\ Len(page[1].search) = 1
    /\ Len(crops) = 1
    /\ crops[1].bbox[4] < page[1].height

\* C7 as claimed: the k >= 1 separators of a page give k blocks, every
\* separator having a following anchor, the last of the blocks capped by
\* the page-bottom anchor.
C7_AsClaimed ==
    LET p == page[1]
        seps == SeparatorsOf(p)
    IN  pc = "done" /\ seps # {}
            /\ (\A n \in seps : p.lines[n].y0 <= p.height) =>
          /\ Len(crops) = Cardinality(seps)
          /\ \A n \in 1..Len(sorted_anchors) :
                sorted_anchors[n].type = "line" => n < Len(sorted_anchors)
          /\ LET last == MaxOf({ n \in 1..Len(sorted_anchors) :
                                   sorted_anchors[n].type = "line" })
             IN  sorted_anchors[last + 1].type = "page_bottom"

\* C7: on a page whose k >= 1 separators all lie on the page (y at most the
\* page's height), every separator starts a block, so k blocks are
\* extracted; the last one ends at the nearest title at or below the lowest
\* separator, and at the page's height when there is none.
C7_EverySeparatorStartsABlock ==
    LET p == page[1]
        seps == SeparatorsOf(p)
        lowest == MaxOf({ p.lines[n].y0 : n \in seps })
        below == { p.search[n].top : n \in 1..Len(p.search) }
                    \cap { y \in Int : y >= lowest }
    IN  pc = "done" /\ seps # {}
            /\ (\A n \in seps : p.lines[n].y0 <= p.height) =>
          /\ Len(crops) = Cardinality(seps)
          /\ \A n \in seps :
                Cardinality({ m \in seps : p.lines[m].y0 = p.lines[n].y0 })
                  = Cardinality({ c \in 1..Len(crops) :
                                    crops[c].bbox[2] = p.lines[n].y0 })
          /\ crops[Len(crops)].bbox[4] = MinOf(below \cup {p.height})

C7_Witness ==
    /\ pc = "done" /\ entry = "extract_footnotes_with_line2"
    /\ Cardinality(SeparatorsOf(page[1])) = 2
    /\ \A n \in SeparatorsOf(page[1]) : page[1].lines[n].y0 < page[1].height
    /\ Len(crops) = 2
    /\ crops[2].bbox[4] < page[1].height

-----------------------------------------------------------------------------
(* Properties of extract_footnotes_with_line.                               *)

Contains(s, t) ==
    \E a \in 0..(Len(s) - Len(t)) : SubSeq(s, a + 1, a + Len(t)) = t

Stripped == StripAll(found_lines)
IdLines == { n \in 1..Len(Stripped) : FootnoteMatch(Stripped[n]) }
Ids == { FootnoteId(Stripped[n]) : n \in IdLines }

\* the id line that a line which is no id line continues, 0 for none
Governing(n) ==
    IF \E m \in IdLines : m < n THEN MaxOf({ m \in IdLines : m < n }) ELSE 0

\* C3 as claimed: the text kept for an id holds the text of every line
\* with that id and of every line that continues one.
C3_AsClaimed ==
    pc = "done" /\ crops # <<>> /\ crops[1].text # <<>> =>
        /\ \A n \in IdLines :
              Contains(DictGet(footnotes, FootnoteId(Stripped[n])),
                       Strip(FootnoteRest(Stripped[n])))
        /\ \A n \in (1..Len(Stripped)) \ IdLines :
              Governing(n) # 0 =>
                 Contains(DictGet(footnotes,
                                  FootnoteId(Stripped[Governing(n)])),
                          Stripped[n])

\* the non-empty lines from a to b, each after a space
RECURSIVE Continuation(_, _)
Continuation(a, b) ==
    IF a > b THEN <<>>
    ELSE (IF Stripped[a] # <<>> THEN <<" ">> \o Stripped[a] ELSE <<>>)
         \o Continuation(a + 1, b)

\* C3: the keys are unique, one for every id met; a later line with the
\* same id replaces the text kept for the id, so that the text of an id is
\* the text of its last id line followed by the lines that continue that
\* line, in input order.
C3_LastIdLineWins ==
    pc = "done" /\ crops # <<>> /\ crops[1].text # <<>> =>
        /\ { footnotes[n].key : n \in 1..Len(footnotes) } = Ids
        /\ Len(footnotes) = Cardinality(Ids)
        /\ \A id \in Ids :
              LET last == MaxOf({ n \in IdLines : FootnoteId(Stripped[n]) = id })
                  later == { n \in IdLines : n > last }
                  stop == IF later = {} THEN Len(Stripped)
                          ELSE MinOf(later) - 1
              IN  DictGet(footnotes, id) =
                     Strip(FootnoteRest(Stripped[last]))
                        \o Continuation(last + 1, stop)

C3_Witness ==
    /\ pc = "done" /\ Len(found_lines) = 3
    /\ IdLines = {1, 3} /\ Ids = {1}
    /\ Stripped[2] # <<>>
    /\ Len(footnotes) = 1
    /\ ~Contains(footnotes[1].value, Stripped[2])

\* what a step of the loop over the lines does to the dict and the id
FoldStep ==
    pc = "wl_for_line" /\ li <= Len(found_lines) =>
        LET s == Strip(found_lines[li])
        IN  IF FootnoteMatch(s)
            THEN /\ current_source_id' = <<FootnoteId(s)>>
                 /\ DictHas(footnotes', FootnoteId(s))
                 /\ DictGet(footnotes', FootnoteId(s))
                       = Strip(FootnoteRest(s))
            ELSE /\ current_source_id' = current_source_id
                 /\ IF current_source_id = None \/ s = <<>>
                    THEN footnotes' = footnotes
                    ELSE /\ Len(footnotes') = Len(footnotes)
                         /\ \A n \in 1..Len(footnotes) :
                              /\ footnotes'[n].key = footnotes[n].key
                              /\ footnotes'[n].value =
                                   IF footnotes[n].key = current_source_id[1]
                                   THEN footnotes[n].value \o <<" ">> \o s
                                   ELSE footnotes[n].value

\* C4: a line with a leading "(N)" makes N the current id; a later non-empty
\* line without one is appended to the current id's text after one space,
\* and is dropped when there is no current id yet; "(1) First part",
\* "continued text", "(2) Second" give {1: "First part continued text",
\* 2: "Second"}.
C4_Continuation ==
    /\ [][FoldStep]_vars
    /\ [](pc = "done" /\ found_lines = ExampleLines =>
            footnotes =
              << [key |-> 1,
                  value |-> SubSeq(ExampleFirst, 5, Len(ExampleFirst))
                              \o <<" ">> \o ExampleContinued],
                 [key |-> 2,
                  value |-> SubSeq(ExampleSecond, 5, Len(ExampleSecond))] >>)

C4_Witness ==
    /\ pc = "done" /\ Len(found_lines) = 3
    /\ ~FootnoteMatch(Stripped[1]) /\ Stripped[1] # <<>>
    /\ FootnoteMatch(Stripped[2])
    /\ ~FootnoteMatch(Stripped[3]) /\ Stripped[3] # <<>>
    /\ Len(footnotes) = 1
    /\ Contains(footnotes[1].value, <<" ">> \o Stripped[3])

=============================================================================
